---- MODULE Spec2Model ----
(***************************************************************************)
(* Task-progress monitor of ModuWeb-EasyPyEnv (js/modules/ui.js,           *)
(* monitorTaskProgress) together with the progress fetcher                 *)
(* (js/modules/api.js, getTaskProgress) and the completion callbacks the   *)
(* dependency handlers pass to it (js/modules/dependency.js,               *)
(* js/modules/dependency-manager.js).                                      *)
(*                                                                         *)
(* One monitor instance is modelled.  The interval callback is async: a    *)
(* tick is split at its await into Tick (the part before the await) and    *)
(* Resume (everything after the await, which JavaScript runs to            *)
(* completion).  setInterval does not wait for a pending tick, so several  *)
(* ticks can be suspended at the await at once (inFlight).                 *)
(*                                                                         *)
(* The second part models the dependency list: the rendered list           *)
(* (#dependency-list), the selection set, the filter and the search of     *)
(* js/modules/ui.js and js/modules/dependency.js (the same code is in      *)
(* js/modules/dependency-manager.js).  ListSpec explores it; PureSpec      *)
(* applies the sort of renderDependencyList and the search score to        *)
(* enumerated inputs.  Names are sequences of one-character strings.       *)
(***************************************************************************)
EXTENDS Integers, Sequences, FiniteSets, TLC

\* Number of interval ticks that are explored.
MaxTicks == 4

\* ui.js:334 and ui.js:345, "consecutiveErrorCount >= 3"
ErrorLimit == 3
\* ui.js:375, "stagnantCount > 2"
StagnantLimit == 2
\* ui.js:382, "stagnantCount > 10"
AdvisoryLimit == 10

\* Values of progress.progress that are explored (0 also stands for a missing field).
ProgressValues == {0, 50, 100}
\* progress.status; "none" is a response without a status field.
Statuses == {"running", "completed", "error", "none"}
\* progress.errors: absent or empty, a list of objects, a list of strings.
ErrorsKinds == {"none", "structured", "strings"}

\* The callers of monitorTaskProgress, by the completion callback they pass.
Callers == {"switchVersion", "switchVersionMgr", "update", "updateMgr",
            "batchUninstall", "refreshList", "cleanCache", "install"}

\* getProgressFunc: the shipped getTaskProgress, or an arbitrary function.
ProgressFuncs == {"getTaskProgress", "arbitrary"}

\* progressData = null
NoData == [kind |-> "null"]

Response(e, p, s, errs) ==
    [kind |-> "response", error |-> e, progress |-> p, status |-> s, errors |-> errs]

\* The object getTaskProgress builds in its catch block: { error: error.message }.
ErrorObject == Response(TRUE, 0, "none", "none")

\* Bodies the task-progress endpoint can send.
Responses ==
    { Response(FALSE, p, s, errs) : p \in ProgressValues,
                                    s \in Statuses \ {"none"},
                                    errs \in ErrorsKinds }
    \cup { ErrorObject, Response(TRUE, 50, "error", "none") }

Thrown == [kind |-> "throw"]
Empty  == [kind |-> "empty"]

\* What one call of an arbitrary getProgressFunc can settle to.
PollResults == Responses \cup {Thrown, Empty}

\* What one request of getTaskProgress can run into.
NetOutcomes ==
    { [net |-> "networkError"], [net |-> "httpError"] }
    \cup { [net |-> "ok", body |-> b] : b \in Responses \cup {Empty} }

VARIABLES
    caller,                 \* which completion callback was passed as onComplete
    getProgressFunc,        \* which progress function was passed
    lastProgressPercent,    \* ui.js:301
    stagnantCount,          \* ui.js:302
    consecutiveErrorCount,  \* ui.js:303
    taskCompleted,          \* ui.js:304
    safetyActive,           \* the safetyTimeout timer is armed (ui.js:307)
    intervalActive,         \* the intervalId timer is armed (ui.js:315)
    inFlight,               \* ticks suspended at "await getProgressFunc(taskId)"
    completions,            \* armed setTimeout(..., 1000) callbacks of cleanupAndComplete
    barPercent,             \* #progress-bar width, in percent
    barHidden,              \* #progress-container has class "hidden"
    lastWrites,             \* percentages written to the bar by the latest step
    notifications,          \* notifications shown so far, oldest first
    errorModalShown,        \* showErrorDetailsModal was called
    onCompleteCalls,        \* number of invocations of onComplete
    onCompleteArgs,         \* the arguments of those invocations
    refetching,             \* callbacks awaiting refreshSingleDependency
    reloading,              \* callbacks awaiting refreshDependencies
    selectionCleared,       \* clearSelection() was called by the callback
    pollsIssued,            \* number of calls of getProgressFunc
    lastKind,               \* what the latest settled call delivered
    throwRun,               \* length of the current run of thrown calls
    failRun,                \* length of the current run of thrown or empty calls
    requestFailRun,         \* length of the current run of failed requests
    endCause,               \* the call site of cleanupAndComplete that passed the guard
    endResult,              \* the poll result handled at that call site
    endCount,               \* consecutiveErrorCount when that tick resumed
    lastRefetch             \* what the latest refreshSingleDependency returned

monVars == <<lastProgressPercent, stagnantCount, consecutiveErrorCount, taskCompleted,
             safetyActive, intervalActive, completions, barPercent, lastWrites,
             endCause>>
cbVars == <<refetching, reloading, selectionCleared>>
uiVars == <<barHidden, notifications, errorModalShown>>
histVars == <<lastKind, throwRun, failRun, requestFailRun, endResult, endCount,
              lastRefetch>>

VARIABLES
    domList,                \* the .dependency-item children of #dependency-list, in order
    selectedDependencies,   \* ui.js:4
    filterValue,            \* value of the #dependency-filter select
    searchValue,            \* value of the #dependency-search input
    originalOrder,          \* dependencyHandler.originalOrder (dependency.js:18)
    listRequests,           \* refreshDependencies calls awaiting loadDependencies
    lastOp,                 \* the list operation that ran last, with its arguments
    canonical,              \* names of the entries of the list, in rendered order
    preSearch               \* names shown before the first search of the current run

VARIABLES
    monitors,               \* the closures of two monitorTaskProgress calls (ui.js:301-304)
    sharedBar               \* #progress-container: the width written and the class "hidden"

VARIABLES
    netCalls,               \* the requests feeding the list, oldest first: kind, phase, abort timer
    shownCall               \* the request whose array the list shows (0: none, or the loading message)

VARIABLES
    submission              \* the latest mutation request of a handler: kind, target, phase, result

VARIABLES
    barPresent              \* the progress elements (#progress-container, -bar, -text) are in the document

VARIABLES
    pureStage,              \* which input PureSpec was given and whether it was applied
    sortInput,              \* the array handed to the sort of renderDependencyList
    sortOutput,             \* what the sort made of it
    scoreKey,               \* dataset.name of the item being scored
    scoreQuery,             \* the query it is scored against
    scoreResult             \* the score

listVars == <<domList, selectedDependencies, filterValue, searchValue,
              originalOrder, listRequests, lastOp, canonical, preSearch>>
pureVars == <<pureStage, sortInput, sortOutput, scoreKey, scoreQuery, scoreResult>>
monitorVars == <<caller, getProgressFunc, monVars, inFlight, cbVars, uiVars,
                 onCompleteCalls, onCompleteArgs, pollsIssued, histVars>>
pairVars == <<monitors, sharedBar>>
netVars == <<netCalls, shownCall>>
submitVars == <<submission>>
domVars == <<barPresent>>
vars == <<monitorVars, listVars, pureVars, pairVars, netVars, submitVars, domVars>>

----
\* The part of the state the monitor's synchronous code reads and writes, as a record.
Cur ==
    [lastProgressPercent |-> lastProgressPercent,
     stagnantCount |-> stagnantCount,
     consecutiveErrorCount |-> consecutiveErrorCount,
     taskCompleted |-> taskCompleted,
     safetyActive |-> safetyActive,
     intervalActive |-> intervalActive,
     completions |-> completions,
     barPercent |-> barPercent,
     writes |-> <<>>,
     site |-> "none",
     endCause |-> endCause]

Commit(s) ==
    /\ lastProgressPercent' = s.lastProgressPercent
    /\ stagnantCount' = s.stagnantCount
    /\ consecutiveErrorCount' = s.consecutiveErrorCount
    /\ taskCompleted' = s.taskCompleted
    /\ safetyActive' = s.safetyActive
    /\ intervalActive' = s.intervalActive
    /\ completions' = s.completions
    /\ barPercent' = s.barPercent
    /\ lastWrites' = s.writes
    /\ endCause' = s.endCause

Min(a, b) == IF a < b THEN a ELSE b
Max(a, b) == IF a > b THEN a ELSE b

\* updateProgressBar(percent, message): the width written is clamped to 0..100.
updateProgressBar(s, percent) ==
    LET safePercent == Min(Max(0, percent), 100)
    IN  [s EXCEPT !.barPercent = safePercent, !.writes = Append(@, safePercent)]

\* The call site about to call cleanupAndComplete (bookkeeping, not program state).
At(site, s) == [s EXCEPT !.site = site]

\* "if (taskCompleted) return;"
AlreadyCompleted_Never(s) == FALSE
AlreadyCompleted(s) == s.taskCompleted

\* The setTimeout(..., 1000) at the end of cleanupAndComplete.
ScheduleCompletion(s, message, isError, progressData) ==
    [s EXCEPT !.completions =
        Append(@, [message |-> message, isError |-> isError, progressData |-> progressData])]

\* cleanupAndComplete(message = '处理完成', isError = false, progressData = null)
cleanupAndComplete_TimersKept(s, message, isError, progressData) ==
    IF AlreadyCompleted(s)
    THEN s
    ELSE LET s1 == [s EXCEPT !.taskCompleted = TRUE,
                             !.endCause = s.site]
             s2 == updateProgressBar(s1, 100)
         IN  ScheduleCompletion(s2, message, isError, progressData)
cleanupAndComplete(s, message, isError, progressData) ==
    IF AlreadyCompleted(s)
    THEN s
    ELSE LET s1 == [s EXCEPT !.taskCompleted = TRUE,
                             !.intervalActive = FALSE,
                             !.safetyActive = FALSE,
                             !.endCause = s.site]
             s2 == updateProgressBar(s1, 100)
         IN  ScheduleCompletion(s2, message, isError, progressData)

\* "consecutiveErrorCount >= 3"
ErrorLimitReached_Late(count) == count > ErrorLimit
ErrorLimitReached(count) == count >= ErrorLimit

\* "if (progress.error)"
HasErrorField_Ignored(r) == FALSE
HasErrorField(r) == r.error

\* "progress.status === 'completed' || displayPercent >= 100"
IsCompleted(r, displayPercent) == r.status = "completed" \/ displayPercent >= 100

\* The interval callback after a successful await, from "let displayPercent" on
\* (ui.js:356-393).
Progressed(s, r) ==
    LET reported == r.progress
        regress == reported < s.lastProgressPercent
        displayPercent == IF regress THEN s.lastProgressPercent ELSE reported
        s1 == IF regress THEN s ELSE [s EXCEPT !.lastProgressPercent = reported]
        s2 == updateProgressBar(s1, displayPercent)
        isCompleted == IsCompleted(r, displayPercent)
    IN  IF displayPercent = s2.lastProgressPercent
        THEN LET s3 == [s2 EXCEPT !.stagnantCount = @ + 1]
             IN  IF displayPercent = 100 /\ s3.stagnantCount > StagnantLimit
                 THEN cleanupAndComplete(At("stagnation", s3), "done", FALSE, NoData)
                 ELSE LET s4 == IF s3.stagnantCount > AdvisoryLimit /\ displayPercent < 100
                                THEN updateProgressBar(s3, displayPercent)
                                ELSE s3
                      IN  IF isCompleted
                          THEN cleanupAndComplete(At("completed", s4), "done", FALSE, r)
                          ELSE s4
        ELSE LET s3 == [s2 EXCEPT !.stagnantCount = 0]
             IN  IF isCompleted
                 THEN cleanupAndComplete(At("completed", s3), "done", FALSE, r)
                 ELSE s3

\* The interval callback from the await on (ui.js:323-393); r is what the
\* awaited call settled to.
AfterAwait(s, r) ==
    IF r.kind = "throw"
    THEN LET s1 == [s EXCEPT !.consecutiveErrorCount = @ + 1]
         IN  IF ErrorLimitReached(s1.consecutiveErrorCount)
             THEN cleanupAndComplete(At("fetchFailed", s1), "fetchFailed", TRUE, NoData)
             ELSE s1
    ELSE LET s0 == [s EXCEPT !.consecutiveErrorCount = 0]
         IN  IF r.kind = "empty"
             THEN LET s1 == [s0 EXCEPT !.consecutiveErrorCount = @ + 1]
                  IN  IF ErrorLimitReached(s1.consecutiveErrorCount)
                      THEN cleanupAndComplete(At("emptyResponse", s1), "noProgress", TRUE, NoData)
                      ELSE s1
             ELSE IF HasErrorField(r)
                  THEN cleanupAndComplete(At("errorField", s0), "progressError", TRUE, NoData)
                  ELSE Progressed(s0, r)

\* getTaskProgress (api.js:175-188): a failed request is caught and turned
\* into an object with an error field; a body is returned as parsed.
getTaskProgress(n) ==
    IF n.net = "ok" THEN n.body ELSE ErrorObject

----
Notify(type, msg) == [type |-> type, msg |-> msg]

\* The notification part of the completion timer (ui.js:421-440).
CompletionNotifications(c) ==
    IF c.isError
    THEN <<Notify("error", c.message)>>
    ELSE IF c.progressData # NoData /\ c.progressData.errors # "none"
         THEN <<Notify("warning", "completedWithErrors")>>
         ELSE <<Notify("success", "taskSucceeded")>>

\* "showErrorDetailsModal(structuredErrors)" is reached (ui.js:426-431).
ShowsErrorModal(c) ==
    /\ ~c.isError
    /\ c.progressData # NoData
    /\ c.progressData.errors = "structured"

\* "onComplete(progressData || {})"
EmptyObject == [kind |-> "emptyObject"]
CallbackArg(c) == IF c.progressData = NoData THEN EmptyObject ELSE c.progressData
StatusOf(d) == IF d.kind = "response" THEN d.status ELSE "none"

\* What the callback does up to its first await: the notifications it shows,
\* and the call it then waits for ("refetch": refreshSingleDependency,
\* "reload": refreshDependencies, "none").
CallbackStart(who, d) ==
    CASE who = "switchVersion" ->
            IF StatusOf(d) = "completed"
            THEN [notes |-> <<>>, wait |-> "refetch", clear |-> FALSE]
            ELSE IF StatusOf(d) = "error"
                 THEN [notes |-> <<Notify("error", "switchFailed")>>, wait |-> "none", clear |-> FALSE]
                 ELSE [notes |-> <<>>, wait |-> "none", clear |-> FALSE]
      [] who \in {"switchVersionMgr", "update", "updateMgr"} ->
            [notes |-> <<>>, wait |-> "refetch", clear |-> FALSE]
      [] who = "batchUninstall" ->
            [notes |-> <<>>, wait |-> "reload", clear |-> TRUE]
      [] who \in {"refreshList", "install"} ->
            [notes |-> <<>>, wait |-> "reload", clear |-> FALSE]
      [] who = "cleanCache" ->
            [notes |-> <<Notify("success", "cacheCleaned")>>, wait |-> "none", clear |-> FALSE]

\* What the callback does once refreshSingleDependency has returned dep
\* (an entry, or null when the re-fetch failed or found nothing).
CallbackAfterRefetch(who, gotEntry) ==
    CASE who \in {"switchVersion", "switchVersionMgr"} ->
            IF gotEntry
            THEN [notes |-> <<Notify("success", "switched")>>, wait |-> "none"]
            ELSE [notes |-> <<>>, wait |-> "reload"]
      [] who = "update" ->
            [notes |-> <<Notify("success", "updated")>>, wait |-> "none"]
      [] OTHER ->
            [notes |-> <<>>, wait |-> "none"]

----
(***************************************************************************)
(* The dependency list.  A name is a sequence of one-character strings; a  *)
(* dependency is a record of its name and its four flags; an item of the   *)
(* rendered list adds the class "selected" and style.display.             *)
(***************************************************************************)
MaxSortLen == 3     \* longest array sorted in PureSpec
MaxKeyLen == 4      \* longest name scored in PureSpec
MaxQueryLen == 2    \* longest query scored in PureSpec
MaxRequests == 1    \* refreshDependencies calls in flight at once in ListSpec

Letters == {"a", "b", "c", "A", "B"}
IsUpper(c) == c \in {"A", "B"}
toLowerCaseChar(c) == IF c = "A" THEN "a" ELSE IF c = "B" THEN "b" ELSE c
toLowerCase(str) == [i \in 1..Len(str) |-> toLowerCaseChar(str[i])]

\* Position of a letter in the alphabet, whatever its case.
LetterRank(c) ==
    LET l == toLowerCaseChar(c)
    IN  IF l = "a" THEN 1 ELSE IF l = "b" THEN 2 ELSE 3

\* String.prototype.localeCompare for unaccented Latin letters: the letters
\* decide first, case being ignored; strings of the same letters are then
\* told apart by the first position where the case differs, lower case first.
RECURSIVE CompareLetters(_, _)
CompareLetters(x, y) ==
    IF x = <<>> /\ y = <<>> THEN 0
    ELSE IF x = <<>> THEN -1
    ELSE IF y = <<>> THEN 1
    ELSE IF LetterRank(Head(x)) < LetterRank(Head(y)) THEN -1
    ELSE IF LetterRank(Head(x)) > LetterRank(Head(y)) THEN 1
    ELSE CompareLetters(Tail(x), Tail(y))
RECURSIVE CompareCase(_, _)
CompareCase(x, y) ==
    IF x = <<>> \/ y = <<>> THEN 0
    ELSE IF Head(x) = Head(y) THEN CompareCase(Tail(x), Tail(y))
    ELSE IF IsUpper(Head(x)) THEN 1 ELSE -1
localeCompare(x, y) ==
    IF CompareLetters(x, y) # 0 THEN CompareLetters(x, y) ELSE CompareCase(x, y)

Dep(name, sys, app, core, ai) ==
    [name |-> name, isSystem |-> sys, isAppRequired |-> app, isCore |-> core, isAIModel |-> ai]

\* The comparator of the sort in renderDependencyList (ui.js:30-45).
CompareDeps_NoName(a, b) ==
    IF a.isSystem /\ ~b.isSystem THEN -1
    ELSE IF ~a.isSystem /\ b.isSystem THEN 1
    ELSE IF a.isAppRequired /\ ~b.isAppRequired THEN -1
    ELSE IF ~a.isAppRequired /\ b.isAppRequired THEN 1
    ELSE IF a.isCore /\ ~b.isCore THEN -1
    ELSE IF ~a.isCore /\ b.isCore THEN 1
    ELSE IF a.isAIModel /\ ~b.isAIModel THEN -1
    ELSE IF ~a.isAIModel /\ b.isAIModel THEN 1
    ELSE 0
CompareDeps(a, b) ==
    IF a.isSystem /\ ~b.isSystem THEN -1
    ELSE IF ~a.isSystem /\ b.isSystem THEN 1
    ELSE IF a.isAppRequired /\ ~b.isAppRequired THEN -1
    ELSE IF ~a.isAppRequired /\ b.isAppRequired THEN 1
    ELSE IF a.isCore /\ ~b.isCore THEN -1
    ELSE IF ~a.isCore /\ b.isCore THEN 1
    ELSE IF a.isAIModel /\ ~b.isAIModel THEN -1
    ELSE IF ~a.isAIModel /\ b.isAIModel THEN 1
    ELSE localeCompare(a.name, b.name)

\* Array.prototype.sort is stable: an element goes before the first element
\* the comparator puts it strictly before, and after everything else.
RECURSIVE InsertDep(_, _)
InsertDep(sorted, x) ==
    IF sorted = <<>> THEN <<x>>
    ELSE IF CompareDeps(x, Head(sorted)) < 0 THEN <<x>> \o sorted
    ELSE <<Head(sorted)>> \o InsertDep(Tail(sorted), x)
RECURSIVE SortDeps(_)
SortDeps(deps) ==
    IF deps = <<>> THEN <<>>
    ELSE InsertDep(SortDeps(SubSeq(deps, 1, Len(deps) - 1)), deps[Len(deps)])

\* String.prototype.startsWith, indexOf (0-based, -1 when absent) and includes.
startsWith(str, q) == Len(q) <= Len(str) /\ SubSeq(str, 1, Len(q)) = q
RECURSIVE IndexFrom(_, _, _)
IndexFrom(str, q, i) ==
    IF i + Len(q) > Len(str) THEN -1
    ELSE IF SubSeq(str, i + 1, i + Len(q)) = q THEN i
    ELSE IndexFrom(str, q, i + 1)
indexOf(str, q) == IndexFrom(str, q, 0)
includes(str, q) == indexOf(str, q) >= 0

\* The score searchDependencies gives an item (dependency.js:661-689).
NearExact_Inclusive(packageName, lowerQuery) == Len(packageName) - Len(lowerQuery) <= 3
NearExact(packageName, lowerQuery) == Len(packageName) - Len(lowerQuery) < 3
Score(name, query) ==
    LET packageName == toLowerCase(name)
        lowerQuery == toLowerCase(query)
    IN  IF packageName = <<>> THEN 0
        ELSE IF startsWith(packageName, lowerQuery)
             THEN (2000 - Len(packageName))
                  + (IF NearExact(packageName, lowerQuery) THEN 500 ELSE 0)
        ELSE IF includes(packageName, lowerQuery)
             THEN 1000 - indexOf(packageName, lowerQuery) - Len(packageName)
        ELSE 0

\* scoredItems.sort((a, b) => b.score - a.score) (dependency.js:700), stable.
ScoreBefore_Ascending(x, y, query) == Score(x.name, query) < Score(y.name, query)
ScoreBefore(x, y, query) == Score(y.name, query) - Score(x.name, query) < 0
RECURSIVE InsertScored(_, _, _)
InsertScored(sorted, x, query) ==
    IF sorted = <<>> THEN <<x>>
    ELSE IF ScoreBefore(x, Head(sorted), query) THEN <<x>> \o sorted
    ELSE <<Head(sorted)>> \o InsertScored(Tail(sorted), x, query)
RECURSIVE SortScored(_, _)
SortScored(items, query) ==
    IF items = <<>> THEN <<>>
    ELSE InsertScored(SortScored(SubSeq(items, 1, Len(items) - 1), query),
                      items[Len(items)], query)

Item(dep, selected, display) ==
    [name |-> dep.name, isSystem |-> dep.isSystem, isAppRequired |-> dep.isAppRequired,
     isCore |-> dep.isCore, isAIModel |-> dep.isAIModel,
     selected |-> selected, display |-> display]
Names(items) == [i \in 1..Len(items) |-> items[i].name]
NameSet(items) == {items[i].name : i \in 1..Len(items)}
IsProtected(x) == x.isSystem \/ x.isAppRequired

\* renderDependencyList (ui.js:11-158): the items made from the sorted array.
\* An item has the class "selected" when its name is in selectedDependencies
\* (ui.js:75-77); style.display is not set; the set itself is not touched.
renderDependencyList(dependencies, selected) ==
    LET sorted == SortDeps(dependencies)
    IN  [i \in 1..Len(sorted) |-> Item(sorted[i], sorted[i].name \in selected, "")]

\* The switch of filterDependencies (dependency.js:332-365).
ShouldShow_NoDefault(item, filterType) ==
    CASE filterType = "system" -> item.isSystem
      [] filterType = "app"    -> item.isAppRequired
      [] filterType = "ai"     -> item.isAIModel
      [] filterType = "core"   -> item.isCore
      [] filterType = "other"  -> ~item.isSystem /\ ~item.isAppRequired
                                  /\ ~item.isCore /\ ~item.isAIModel
      [] OTHER                 -> FALSE
ShouldShow(item, filterType) ==
    CASE filterType = "system" -> item.isSystem
      [] filterType = "app"    -> item.isAppRequired
      [] filterType = "ai"     -> item.isAIModel
      [] filterType = "core"   -> item.isCore
      [] filterType = "other"  -> ~item.isSystem /\ ~item.isAppRequired
                                  /\ ~item.isCore /\ ~item.isAIModel
      [] OTHER                 -> TRUE

\* An item filterDependencies hides and deselects (dependency.js:321, 370-379).
WasSelected(item, selected) == item.selected

\* filterDependencies (dependency.js:317-391) on the items and the set.
filterDependencies(items, selected, filterType) ==
    LET hides(x) == ~ShouldShow(x, filterType)
        drops(x) == hides(x) /\ WasSelected(x, selected)
    IN  [items |-> [i \in 1..Len(items) |->
                        [items[i] EXCEPT
                            !.display = IF hides(items[i]) THEN "none" ELSE "flex",
                            !.selected = IF drops(items[i]) THEN FALSE ELSE @]],
         selected |-> selected \ {items[i].name : i \in {j \in 1..Len(items) : drops(items[j])}}]

\* handleSelectAll (ui.js:196-227): the visible items that have a checkbox.
SelectAllReaches(x) == ~x.isSystem /\ ~x.isAppRequired /\ x.display # "none"
handleSelectAll(items, selected, isChecked) ==
    LET reached == {items[i].name : i \in {j \in 1..Len(items) : SelectAllReaches(items[j])}}
    IN  [items |-> [i \in 1..Len(items) |->
                        IF SelectAllReaches(items[i])
                        THEN [items[i] EXCEPT !.selected = isChecked]
                        ELSE items[i]],
         selected |-> IF isChecked THEN selected \cup reached ELSE selected \ reached]

\* clearSelection (ui.js:240-255).
clearSelection(items) ==
    [items |-> [i \in 1..Len(items) |-> [items[i] EXCEPT !.selected = FALSE]],
     selected |-> {}]

\* A change of one item's checkbox: updateDependencySelection (ui.js:166-175)
\* or, on a cloned item, the handler of rebindDependencyEvents
\* (dependency.js:816-838) with the listener of ui.js:932-939.
updateDependencySelection(items, selected, i) ==
    [items |-> [items EXCEPT ![i].selected = ~items[i].selected],
     selected |-> IF items[i].selected THEN selected \ {items[i].name}
                  ELSE selected \cup {items[i].name}]

\* resetDependencyOrder (dependency.js:773-795): clones of the snapshot.
resetDependencyOrder(items, original) == IF original = <<>> THEN items ELSE original

\* The snapshot searchDependencies keeps (dependency.js:638-642).
CaptureOrder(items, original) == IF Len(original) = 0 THEN items ELSE original

\* searchDependencies (dependency.js:611-768) on the items and the snapshot.
searchDependencies(items, original, query) ==
    LET kept == CaptureOrder(items, original)
    IN  [original |-> kept,
         items |-> IF query = <<>> THEN resetDependencyOrder(items, kept)
                   ELSE SortScored(items, query)]

\* What the specification calls remove(key): the entry leaves the list and
\* the selection.
removeDependencyItem(items, selected, key) ==
    [items |-> SelectSeq(items, LAMBDA x : x.name # key),
     selected |-> selected \ {key}]

\* The list and the search before anything is loaded or searched.
NoOp == [op |-> "none"]
NoSearch == << <<>> >>
ListAtRest ==
    /\ domList = <<>>
    /\ selectedDependencies = {}
    /\ filterValue = "all"
    /\ searchValue = <<>>
    /\ originalOrder = <<>>
    /\ listRequests = 0
    /\ lastOp = NoOp
    /\ canonical = <<>>
    /\ preSearch = NoSearch
PureAtRest ==
    /\ pureStage = "rest"
    /\ sortInput = <<>>
    /\ sortOutput = <<>>
    /\ scoreKey = <<>>
    /\ scoreQuery = <<>>
    /\ scoreResult = 0

\* No pair of monitors is running: the progress container is hidden.
PairAtRest ==
    /\ monitors = <<>>
    /\ sharedBar = [percent |-> 0, hidden |-> TRUE]

\* No request feeding the list has been made.
NetAtRest == netCalls = <<>> /\ shownCall = 0

\* No handler has submitted a mutation.
NoSubmission == [kind |-> "none", name |-> <<>>, phase |-> "idle", count |-> 0]
SubmitAtRest == submission = NoSubmission

\* The page as served: the progress elements exist (showProgressBar, which
\* every handler calls before monitorTaskProgress, needs them: ui.js:261-267).
DomAtRest == barPresent = TRUE

----
Init ==
    /\ caller \in Callers
    /\ getProgressFunc \in ProgressFuncs
    /\ lastProgressPercent = 0
    /\ stagnantCount = 0
    /\ consecutiveErrorCount = 0
    /\ taskCompleted = FALSE
    /\ safetyActive = TRUE
    /\ intervalActive = TRUE
    /\ inFlight = 0
    /\ completions = <<>>
    /\ barPercent = 0
    /\ barHidden = FALSE
    /\ lastWrites = <<>>
    /\ notifications = <<>>
    /\ errorModalShown = FALSE
    /\ onCompleteCalls = 0
    /\ onCompleteArgs = <<>>
    /\ refetching = 0
    /\ reloading = 0
    /\ selectionCleared = FALSE
    /\ pollsIssued = 0
    /\ lastKind = "none"
    /\ throwRun = 0
    /\ failRun = 0
    /\ requestFailRun = 0
    /\ endCause = "none"
    /\ endResult = [kind |-> "none"]
    /\ endCount = 0
    /\ lastRefetch = "none"
    /\ ListAtRest
    /\ PureAtRest
    /\ PairAtRest
    /\ NetAtRest
    /\ SubmitAtRest
    /\ DomAtRest

\* The interval timer fires: the callback runs up to its await (ui.js:315-325).
Tick ==
    /\ intervalActive
    /\ pollsIssued < MaxTicks
    /\ IF taskCompleted
       THEN /\ Commit([Cur EXCEPT !.intervalActive = FALSE])
            /\ UNCHANGED <<inFlight, pollsIssued>>
       ELSE /\ Commit(Cur)
            /\ inFlight' = inFlight + 1
            /\ pollsIssued' = pollsIssued + 1
    /\ UNCHANGED <<listVars, pureVars, pairVars, netVars, submitVars, domVars, caller, getProgressFunc, cbVars, uiVars, onCompleteCalls,
                   onCompleteArgs, histVars>>

\* The branch of the tick that handles r.
KindOf(r) ==
    IF r.kind # "response" THEN r.kind
    ELSE IF r.error THEN "errorField" ELSE "progress"

\* A suspended tick resumes with result r (n is the request outcome behind it
\* when getTaskProgress produced r) and runs to its end.
ResumeWith(r, n) ==
    LET s == AfterAwait(Cur, r)
    IN  /\ inFlight > 0
        /\ inFlight' = inFlight - 1
        /\ Commit(s)
        /\ lastKind' = KindOf(r)
        /\ throwRun' = IF r.kind = "throw" THEN throwRun + 1 ELSE 0
        /\ failRun' = IF r.kind \in {"throw", "empty"} THEN failRun + 1 ELSE 0
        /\ requestFailRun' = IF n.net \in {"networkError", "httpError"}
                             THEN requestFailRun + 1 ELSE 0
        /\ endResult' = IF ~taskCompleted /\ s.taskCompleted THEN r ELSE endResult
        /\ endCount' = IF ~taskCompleted /\ s.taskCompleted
                       THEN consecutiveErrorCount ELSE endCount
        /\ UNCHANGED <<listVars, pureVars, pairVars, netVars, submitVars, domVars, caller, getProgressFunc, cbVars, uiVars, onCompleteCalls,
                       onCompleteArgs, pollsIssued, lastRefetch>>

\* The awaited call of an arbitrary getProgressFunc settles.
ResumeArbitrary ==
    /\ getProgressFunc = "arbitrary"
    /\ \E r \in PollResults : ResumeWith(r, [net |-> "none"])

\* The awaited call of getTaskProgress settles.
ResumeShipped ==
    /\ getProgressFunc = "getTaskProgress"
    /\ \E n \in NetOutcomes : ResumeWith(getTaskProgress(n), n)

\* The safety timeout fires (ui.js:307-312).
SafetyTimeoutFires_Idle ==
    /\ safetyActive
    /\ Commit([Cur EXCEPT !.safetyActive = FALSE])
    /\ UNCHANGED <<listVars, pureVars, pairVars, netVars, submitVars, domVars, caller, getProgressFunc, inFlight, cbVars, uiVars, onCompleteCalls,
                   onCompleteArgs, pollsIssued, histVars>>
SafetyTimeoutFires ==
    /\ safetyActive
    /\ LET s0 == [Cur EXCEPT !.safetyActive = FALSE]
       IN  Commit(IF ~s0.taskCompleted
                  THEN cleanupAndComplete(At("safetyTimeout", s0), "done", FALSE, NoData)
                  ELSE s0)
    /\ UNCHANGED <<listVars, pureVars, pairVars, netVars, submitVars, domVars, caller, getProgressFunc, inFlight, cbVars, uiVars, onCompleteCalls,
                   onCompleteArgs, pollsIssued, histVars>>

\* The timer armed by cleanupAndComplete fires (ui.js:417-451): the bar is
\* hidden, the outcome is notified and onComplete runs up to its first await.
CompletionTimerFires ==
    /\ completions # <<>>
    /\ LET c == Head(completions)
           d == CallbackArg(c)
           cb == CallbackStart(caller, d)
       IN  /\ Commit([Cur EXCEPT !.completions = Tail(@)])
           /\ barHidden' = TRUE
           /\ errorModalShown' = (errorModalShown \/ ShowsErrorModal(c))
           /\ notifications' = notifications \o CompletionNotifications(c) \o cb.notes
           /\ onCompleteCalls' = onCompleteCalls + 1
           /\ onCompleteArgs' = Append(onCompleteArgs, d)
           /\ refetching' = IF cb.wait = "refetch" THEN refetching + 1 ELSE refetching
           /\ reloading' = IF cb.wait = "reload" THEN reloading + 1 ELSE reloading
           /\ selectionCleared' = (selectionCleared \/ cb.clear)
    /\ UNCHANGED <<listVars, pureVars, pairVars, netVars, submitVars, domVars, caller, getProgressFunc, inFlight, pollsIssued, histVars>>

\* refreshSingleDependency returns to the callback that awaits it
\* (core.js:88-135: an entry, or null on any failure).
RefetchReturns ==
    /\ refetching > 0
    /\ \E gotEntry \in BOOLEAN :
          LET cb == CallbackAfterRefetch(caller, gotEntry)
          IN  /\ refetching' = refetching - 1
              /\ reloading' = IF cb.wait = "reload" THEN reloading + 1 ELSE reloading
              /\ notifications' = notifications \o cb.notes
              /\ lastRefetch' = IF gotEntry THEN "entry" ELSE "null"
    /\ Commit(Cur)
    /\ UNCHANGED <<listVars, pureVars, pairVars, netVars, submitVars, domVars, caller, getProgressFunc, inFlight, selectionCleared, barHidden,
                   errorModalShown, onCompleteCalls, onCompleteArgs, pollsIssued, lastKind,
                   throwRun, failRun, requestFailRun, endResult, endCount>>

\* refreshDependencies returns to the callback that awaits it
\* (core.js:12-80: on failure it shows its own error notification).
ReloadReturns ==
    /\ reloading > 0
    /\ \E ok \in BOOLEAN :
          /\ reloading' = reloading - 1
          /\ notifications' = IF ok THEN notifications
                              ELSE Append(notifications, Notify("error", "refreshFailed"))
    /\ Commit(Cur)
    /\ UNCHANGED <<listVars, pureVars, pairVars, netVars, submitVars, domVars, caller, getProgressFunc, inFlight, refetching, selectionCleared, barHidden,
                   errorModalShown, onCompleteCalls, onCompleteArgs, pollsIssued, histVars>>

\* handlePackageInstall goes on once handleTaskWithProgress has returned
\* true, which it does as soon as monitorTaskProgress was called
\* (dependency.js:476-486, 546-556): refreshSingleDependency is called.
InstallRefetchStarts ==
    /\ caller = "install"
    /\ lastRefetch = "none"
    /\ lastRefetch' = "pending"
    /\ refetching' = refetching + 1
    /\ Commit(Cur)
    /\ UNCHANGED <<listVars, pureVars, pairVars, netVars, submitVars, domVars, caller, getProgressFunc, inFlight, reloading,
                   selectionCleared, uiVars, onCompleteCalls, onCompleteArgs, pollsIssued,
                   lastKind, throwRun, failRun, requestFailRun, endResult, endCount>>

Next ==
    \/ Tick
    \/ ResumeArbitrary
    \/ ResumeShipped
    \/ SafetyTimeoutFires
    \/ CompletionTimerFires
    \/ RefetchReturns
    \/ ReloadReturns
    \/ InstallRefetchStarts

Spec == Init /\ [][Next]_vars

\* Timers that are armed fire; the event loop runs a pending timer callback.
FairSpec ==
    /\ Spec
    /\ WF_vars(SafetyTimeoutFires)
    /\ WF_vars(CompletionTimerFires)

----
(***************************************************************************)
(* The dependency list: ListSpec.  No monitor is running.                  *)
(***************************************************************************)
NoMonitor ==
    /\ caller = "uninstall"
    /\ getProgressFunc = "getTaskProgress"
    /\ lastProgressPercent = 0
    /\ stagnantCount = 0
    /\ consecutiveErrorCount = 0
    /\ taskCompleted = FALSE
    /\ safetyActive = FALSE
    /\ intervalActive = FALSE
    /\ inFlight = 0
    /\ completions = <<>>
    /\ barPercent = 0
    /\ barHidden = TRUE
    /\ lastWrites = <<>>
    /\ notifications = <<>>
    /\ errorModalShown = FALSE
    /\ onCompleteCalls = 0
    /\ onCompleteArgs = <<>>
    /\ refetching = 0
    /\ reloading = 0
    /\ selectionCleared = FALSE
    /\ pollsIssued = 0
    /\ lastKind = "none"
    /\ throwRun = 0
    /\ failRun = 0
    /\ requestFailRun = 0
    /\ endCause = "none"
    /\ endResult = [kind |-> "none"]
    /\ endCount = 0
    /\ lastRefetch = "none"

ab == <<"a", "b">>
ba == <<"b", "a">>
ListNames == {ab, ba}
Plain(name) == Dep(name, FALSE, FALSE, FALSE, FALSE)
Core(name) == Dep(name, FALSE, FALSE, TRUE, FALSE)
System(name) == Dep(name, TRUE, FALSE, FALSE, FALSE)

\* Arrays loadDependencies can resolve with (api.js:60-71), as they arrive.
Inventories ==
    { <<Plain(ba), Plain(ab)>>,
      <<System(ab), Core(ba)>>,
      <<Core(ba)>>,
      <<>> }
Filters == {"all", "core"}
SearchInputs == {<<>>, <<"b">>, <<"c">>}
UiModules == {"ui.js", "ui-components.js"}

\* The names a module exports: those of ui.js are in src/js/modules/ui.js;
\* ui-components.js is imported by dependency-manager.js:14-18 for
\* removeDependencyItem.
Exports(module) ==
    IF module = "ui.js"
    THEN {"renderDependencyList", "updateBatchButtonState", "handleSelectAll",
          "getSelectedDependencies", "clearSelection", "showProgressBar",
          "updateProgressBar", "hideProgressBar", "monitorTaskProgress",
          "showNotification", "initVersionModal", "openVersionModal",
          "showLoadingMessage", "showUpdateConfirmDialog",
          "showInitialLoadingScreen", "updateInitialLoadingProgress",
          "hideInitialLoadingScreen"}
    ELSE {"removeDependencyItem"}

ListInit == NoMonitor /\ ListAtRest /\ PureAtRest /\ PairAtRest /\ NetAtRest /\ SubmitAtRest /\ DomAtRest

\* refreshDependencies up to its await (core.js:12-37): showLoadingMessage
\* replaces the content of the list (ui.js:817-822).
RefreshStart ==
    /\ listRequests < MaxRequests
    /\ domList' = <<>>
    /\ listRequests' = listRequests + 1
    /\ lastOp' = [op |-> "refresh"]
    /\ preSearch' = NoSearch
    /\ UNCHANGED <<selectedDependencies, filterValue, searchValue, originalOrder, canonical>>
    /\ UNCHANGED <<monitorVars, pureVars, pairVars, netVars, submitVars, domVars>>

\* loadDependencies resolves and the list is rendered (core.js:37-68).
RefreshRender(dependencies) ==
    /\ listRequests > 0
    /\ listRequests' = listRequests - 1
    /\ domList' = renderDependencyList(dependencies, selectedDependencies)
    /\ canonical' = Names(domList')
    /\ preSearch' = NoSearch
    /\ lastOp' = [op |-> "render"]
    /\ UNCHANGED <<selectedDependencies, filterValue, searchValue, originalOrder>>
    /\ UNCHANGED <<monitorVars, pureVars, pairVars, netVars, submitVars, domVars>>

\* loadDependencies rejects (core.js:69-79): the loading message stays.
RefreshFails ==
    /\ listRequests > 0
    /\ listRequests' = listRequests - 1
    /\ lastOp' = [op |-> "refreshFailed"]
    /\ UNCHANGED <<domList, selectedDependencies, filterValue, searchValue, originalOrder,
                   canonical, preSearch>>
    /\ UNCHANGED <<monitorVars, pureVars, pairVars, netVars, submitVars, domVars>>

\* The change listener of #dependency-filter (dependency.js:287-292).
FilterChange(filterType) ==
    /\ LET r == filterDependencies(domList, selectedDependencies, filterType)
       IN  /\ domList' = r.items
           /\ selectedDependencies' = r.selected
    /\ filterValue' = filterType
    /\ lastOp' = [op |-> "filter"]
    /\ UNCHANGED <<searchValue, originalOrder, listRequests, canonical, preSearch>>
    /\ UNCHANGED <<monitorVars, pureVars, pairVars, netVars, submitVars, domVars>>

\* The user changes the checkbox of a visible item; protected items have
\* none (ui.js:79-81, 131-136).
Toggle(packageName) ==
    /\ \E i \in 1..Len(domList) :
          /\ domList[i].name = packageName
          /\ ~IsProtected(domList[i])
          /\ domList[i].display # "none"
          /\ LET r == updateDependencySelection(domList, selectedDependencies, i)
             IN  /\ domList' = r.items
                 /\ selectedDependencies' = r.selected
    /\ lastOp' = [op |-> "toggle"]
    /\ UNCHANGED <<filterValue, searchValue, originalOrder, listRequests, canonical, preSearch>>
    /\ UNCHANGED <<monitorVars, pureVars, pairVars, netVars, submitVars, domVars>>

\* The change listener of #select-all (dependency.js:172-177).
SelectAll(isChecked) ==
    /\ LET r == handleSelectAll(domList, selectedDependencies, isChecked)
       IN  /\ domList' = r.items
           /\ selectedDependencies' = r.selected
    /\ lastOp' = [op |-> "selectAll"]
    /\ UNCHANGED <<filterValue, searchValue, originalOrder, listRequests, canonical, preSearch>>
    /\ UNCHANGED <<monitorVars, pureVars, pairVars, netVars, submitVars, domVars>>

\* The completion callback of a batch uninstall (dependency.js:202-205):
\* clearSelection, then refreshDependencies up to its await.
BatchUninstallCompleted ==
    /\ listRequests < MaxRequests
    /\ selectedDependencies' = clearSelection(domList).selected
    /\ domList' = <<>>
    /\ listRequests' = listRequests + 1
    /\ lastOp' = [op |-> "clearSelection"]
    /\ preSearch' = NoSearch
    /\ UNCHANGED <<filterValue, searchValue, originalOrder, canonical>>
    /\ UNCHANGED <<monitorVars, pureVars, pairVars, netVars, submitVars, domVars>>

\* The debounced call of the input listener of #dependency-search runs with
\* the value typed (dependency.js:577-584).
Search(value) ==
    /\ LET query == toLowerCase(value)
           r == searchDependencies(domList, originalOrder, query)
       IN  /\ domList' = r.items
           /\ originalOrder' = r.original
           /\ lastOp' = [op |-> "search", arg |-> query]
           /\ preSearch' = IF query = <<>> THEN NoSearch
                           ELSE IF preSearch = NoSearch THEN Names(domList)
                           ELSE preSearch
    /\ searchValue' = value
    /\ UNCHANGED <<selectedDependencies, filterValue, listRequests, canonical>>
    /\ UNCHANGED <<monitorVars, pureVars, pairVars, netVars, submitVars, domVars>>

\* The click listener of #clear-search (dependency.js:596-603).
ClearSearch ==
    /\ LET r == searchDependencies(domList, originalOrder, <<>>)
       IN  /\ domList' = r.items
           /\ originalOrder' = r.original
    /\ searchValue' = <<>>
    /\ lastOp' = [op |-> "clearSearch"]
    /\ preSearch' = NoSearch
    /\ UNCHANGED <<selectedDependencies, filterValue, listRequests, canonical>>
    /\ UNCHANGED <<monitorVars, pureVars, pairVars, netVars, submitVars, domVars>>

\* uninstallDependency resolved with success (dependency.js:101-131,
\* dependency-manager.js:113-140).  dependency.js takes removeDependencyItem
\* from ui.js, dependency-manager.js from ui-components.js; calling a name
\* the module does not export throws, and the catch only logs.
UninstallEffect(packageName, module) ==
    /\ IF "removeDependencyItem" \in Exports(module)
       THEN LET removed == removeDependencyItem(domList, selectedDependencies, packageName)
                searched == IF searchValue # <<>>
                            THEN searchDependencies(removed.items, originalOrder,
                                                    toLowerCase(searchValue))
                            ELSE [items |-> removed.items, original |-> originalOrder]
                filtered == IF filterValue # "all"
                            THEN filterDependencies(searched.items, removed.selected, filterValue)
                            ELSE [items |-> searched.items, selected |-> removed.selected]
            IN  /\ domList' = filtered.items
                /\ selectedDependencies' = filtered.selected
                /\ originalOrder' = searched.original
                /\ canonical' = SelectSeq(canonical, LAMBDA n : n # packageName)
                /\ preSearch' = NoSearch
       ELSE UNCHANGED <<domList, selectedDependencies, originalOrder, canonical, preSearch>>
    /\ lastOp' = [op |-> "uninstall", arg |-> packageName, from |-> module]
    /\ UNCHANGED <<filterValue, searchValue, listRequests>>

UninstallSucceeds(packageName, module) ==
    /\ UninstallEffect(packageName, module)
    /\ UNCHANGED <<monitorVars, pureVars, pairVars, netVars, submitVars, domVars>>

ListNext ==
    \/ RefreshStart
    \/ \E dependencies \in Inventories : RefreshRender(dependencies)
    \/ RefreshFails
    \/ \E filterType \in Filters : FilterChange(filterType)
    \/ \E packageName \in ListNames : Toggle(packageName)
    \/ \E isChecked \in BOOLEAN : SelectAll(isChecked)
    \/ BatchUninstallCompleted
    \/ \E value \in SearchInputs : Search(value)
    \/ ClearSearch
    \/ \E packageName \in ListNames, module \in UiModules : UninstallSucceeds(packageName, module)

ListSpec == ListInit /\ [][ListNext]_vars

----
(***************************************************************************)
(* The sort of renderDependencyList and the search score on enumerated     *)
(* inputs: PureSpec.                                                       *)
(***************************************************************************)
RECURSIVE SeqsUpTo(_, _)
SeqsUpTo(S, n) ==
    IF n = 0 THEN {<<>>}
    ELSE LET shorter == SeqsUpTo(S, n - 1)
         IN  shorter \cup {Append(s, x) : s \in shorter, x \in S}

SortNames == {<<"a">>, <<"A">>, <<"b">>, <<"a", "b">>}
SortDeps_Values ==
    {Dep(n, f[1], f[2], f[3], f[4]) :
        n \in SortNames,
        f \in {<<FALSE, FALSE, FALSE, FALSE>>, <<TRUE, FALSE, FALSE, FALSE>>,
               <<FALSE, TRUE, FALSE, FALSE>>, <<FALSE, FALSE, TRUE, FALSE>>,
               <<FALSE, FALSE, FALSE, TRUE>>, <<FALSE, FALSE, TRUE, TRUE>>}}
\* The sequences of at most n elements of S in which no name occurs twice.
RECURSIVE UniqueSeqsUpTo(_, _)
UniqueSeqsUpTo(S, n) ==
    IF n = 0 THEN {<<>>}
    ELSE LET shorter == UniqueSeqsUpTo(S, n - 1)
         IN  shorter \cup UNION {{Append(s, x) : x \in {y \in S : y.name \notin NameSet(s)}} :
                                     s \in shorter}
SortInputs(n) == UniqueSeqsUpTo(SortDeps_Values, n)
ScoreLetters == {"a", "b", "A"}
ScoreKeys(n) == SeqsUpTo(ScoreLetters, n)
ScoreQueries(n) == SeqsUpTo(ScoreLetters, n) \ {<<>>}
RankItems ==
    { Item(Plain(<<"a">>), FALSE, ""),
      Item(Core(<<"a", "b">>), TRUE, "flex"),
      Item(Plain(<<"b", "a">>), FALSE, "none"),
      Item(Plain(<<"B", "a">>), TRUE, ""),
      Item(System(<<"b">>), FALSE, "flex") }
RankInputs(n) == UniqueSeqsUpTo(RankItems, n)

PureInit ==
    /\ NoMonitor
    /\ ListAtRest
    /\ PairAtRest
    /\ NetAtRest
    /\ SubmitAtRest
    /\ DomAtRest
    /\ \/ /\ pureStage = "sortGiven"
          /\ sortInput \in SortInputs(MaxSortLen)
          /\ scoreKey = <<>>
          /\ scoreQuery = <<>>
       \/ /\ pureStage = "scoreGiven"
          /\ sortInput = <<>>
          /\ scoreKey \in ScoreKeys(MaxKeyLen)
          /\ scoreQuery \in ScoreQueries(MaxQueryLen)
       \/ /\ pureStage = "rankGiven"
          /\ sortInput \in RankInputs(MaxSortLen)
          /\ scoreKey = <<>>
          /\ scoreQuery \in ScoreQueries(MaxQueryLen)
    /\ sortOutput = <<>>
    /\ scoreResult = 0

\* dependencies.sort(...) of renderDependencyList (ui.js:30-45).
ApplySort ==
    /\ pureStage = "sortGiven"
    /\ pureStage' = "sorted"
    /\ sortOutput' = SortDeps(sortInput)
    /\ UNCHANGED <<sortInput, scoreKey, scoreQuery, scoreResult>>
    /\ UNCHANGED <<monitorVars, listVars, pairVars, netVars, submitVars, domVars>>

\* The scoring of one item in searchDependencies (dependency.js:656-697).
ApplyScore ==
    /\ pureStage = "scoreGiven"
    /\ pureStage' = "scored"
    /\ scoreResult' = Score(scoreKey, scoreQuery)
    /\ UNCHANGED <<sortInput, sortOutput, scoreKey, scoreQuery>>
    /\ UNCHANGED <<monitorVars, listVars, pairVars, netVars, submitVars, domVars>>

\* searchDependencies with a non-empty query on a list searched for the
\* first time (dependency.js:611-768); the listener lowers the query
\* (dependency.js:579).
ApplySearch ==
    /\ pureStage = "rankGiven"
    /\ pureStage' = "ranked"
    /\ sortOutput' = searchDependencies(sortInput, <<>>, toLowerCase(scoreQuery)).items
    /\ UNCHANGED <<sortInput, scoreKey, scoreQuery, scoreResult>>
    /\ UNCHANGED <<monitorVars, listVars, pairVars, netVars, submitVars, domVars>>

PureNext == ApplySort \/ ApplyScore \/ ApplySearch

PureSpec == PureInit /\ [][PureNext]_vars

----
\* A step in which a suspended tick resumes.
ResumeStep == inFlight' = inFlight - 1

NonDecreasing(seq) == \A i \in 1..(Len(seq) - 1) : seq[i] <= seq[i + 1]

\* The notifications that tell the outcome of the task (the list reload's own
\* failure notice is about the list, not about the task).
OutcomeNotes == SelectSeq(notifications, LAMBDA n : n.msg # "refreshFailed")

\* The outcome shown for a confirmed completion without errors.
SuccessOutcome == Notify("success", "taskSucceeded")

\* C1: onComplete is invoked at most once per monitor, whatever the poll
\* results and however ticks, overlapping ticks and the safety timeout interleave.
OnCompleteAtMostOnce == onCompleteCalls <= 1

\* C1 witness: the safety timeout ended the monitor, a tick that was still in
\* flight then resumed with progress 100, and onComplete has run once.
OnCompleteAtMostOnce_Witness ==
    /\ endCause = "safetyTimeout"
    /\ lastKind = "progress"
    /\ lastProgressPercent = 100
    /\ onCompleteCalls = 1

\* C2: with timers that fire, every monitor eventually invokes onComplete.
EventuallyCompletes == <>(onCompleteCalls >= 1)

\* C2 witness: no call of getProgressFunc ever settled, the safety timeout
\* ended the monitor and onComplete has run.
EventuallyCompletes_Witness ==
    /\ endCause = "safetyTimeout"
    /\ pollsIssued = MaxTicks
    /\ inFlight = pollsIssued
    /\ onCompleteCalls = 1

\* C3: the percentages a monitor writes to the progress bar, from its first
\* tick through the forced 100% and the ticks still in flight at completion,
\* never decrease.
BarNeverRegresses == [][NonDecreasing(<<barPercent>> \o lastWrites')]_vars

EmptyCountsLikeThrow == failRun >= 3 => taskCompleted

\* C6: a response with an error field ends the monitor in the tick that
\* receives it, whatever consecutiveErrorCount is, and the error outcome goes
\* through the completion handler.
ErrorFieldEndsMonitor ==
    /\ [][(/\ ResumeStep
           /\ lastKind' = "errorField"
           /\ ~taskCompleted)
          => /\ taskCompleted'
             /\ endCause' = "errorField"
             /\ completions' = <<[message |-> "progressError", isError |-> TRUE,
                                  progressData |-> NoData]>>]_vars
    /\ []((endCause = "errorField" /\ onCompleteCalls >= 1)
            => /\ notifications[1] = Notify("error", "progressError")
               /\ onCompleteArgs[1] = EmptyObject)

\* C6 witness: an error field arrived after two thrown calls, and the error
\* outcome has been shown.
ErrorFieldEndsMonitor_Witness ==
    /\ endCause = "errorField"
    /\ endCount = 2
    /\ onCompleteCalls = 1
    /\ notifications[1].type = "error"

\* C7: when a response with status 'completed' or progress >= 100 ends the
\* monitor, its errors payload reaches onComplete and a non-empty errors list
\* gives the partial-success outcome.
ErrorsPayloadCarried ==
    (/\ endCause \in {"completed", "stagnation"}
     /\ endResult.errors # "none"
     /\ onCompleteCalls >= 1)
    => /\ onCompleteArgs[1] = endResult
       /\ notifications[1] = Notify("warning", "completedWithErrors")

\* C8: the completion handler and the caller's callback together never show
\* task outcomes of two different kinds.
OneOutcomeKind ==
    \A i, j \in DOMAIN OutcomeNotes : OutcomeNotes[i].type = OutcomeNotes[j].type

\* C9: driven by getTaskProgress, a failed request that is the first or second
\* failure in a row does not end the monitor.
FailedRequestIsRetried ==
    [][(/\ getProgressFunc = "getTaskProgress"
        /\ ResumeStep
        /\ requestFailRun' = requestFailRun + 1
        /\ requestFailRun' < 3)
       => taskCompleted' = taskCompleted]_vars

\* C10: the outcome shown when the safety timeout ended the monitor differs
\* from the outcome shown for a confirmed successful completion.
TimeoutOutcomeDistinct ==
    (endCause = "safetyTimeout" /\ onCompleteCalls >= 1)
    => notifications[1] # SuccessOutcome

----
\* The items of the rendered list.
Items == {domList[i] : i \in 1..Len(domList)}

\* C11: after any sequence of list replacement, filter change, toggle,
\* select-all, clear-selection, search and clear-search, every selected
\* key that has an entry in the list has an entry passing the filter chosen
\* in #dependency-filter.
SelectionPassesFilter ==
    \A x \in Items : x.name \in selectedDependencies => ShouldShow(x, filterValue)

\* C12: no entry with isSystem or isAppRequired has its key in the
\* selection set, also after a list replacement in which a selected entry
\* comes back protected.
NoProtectedSelected ==
    \A x \in Items : IsProtected(x) => x.name \notin selectedDependencies

\* C13: when a full replacement has rendered the new list, the selection
\* set holds no key that is absent from it.
SelectionPrunedOnRender ==
    lastOp.op = "render" => selectedDependencies \subseteq NameSet(domList)

\* C14: after filterDependencies(f) no entry that fails f has its key in the
\* selection set, and no filterDependencies call, 'all' included, puts a key
\* into the set.
FilterDeselectsHidden ==
    /\ [](lastOp.op = "filter" =>
            \A x \in Items : ~ShouldShow(x, filterValue) => x.name \notin selectedDependencies)
    /\ [][lastOp'.op = "filter" => selectedDependencies' \subseteq selectedDependencies]_vars

\* C15: after a successful uninstall of k, k is neither in the list nor in
\* the selection set; when k was in neither, the entries and the selection
\* set are what they were.
UninstallRemovesKey ==
    /\ [](lastOp.op = "uninstall" =>
            /\ lastOp.arg \notin NameSet(domList)
            /\ lastOp.arg \notin selectedDependencies)
    /\ [][(/\ lastOp'.op = "uninstall"
           /\ lastOp'.arg \notin NameSet(domList)
           /\ lastOp'.arg \notin selectedDependencies)
          => /\ NameSet(domList') = NameSet(domList)
             /\ selectedDependencies' = selectedDependencies]_vars

\* The rearrangements of a sequence.
Bijections(n) == {f \in [1..n -> 1..n] : \A i, j \in 1..n : f[i] = f[j] => i = j}
Rearrangements(seq) ==
    {[i \in 1..Len(seq) |-> seq[f[i]]] : f \in Bijections(Len(seq))}

\* The first of system, app-required, core, AI-model that an entry has.
GroupRank(x) ==
    IF x.isSystem THEN 0 ELSE IF x.isAppRequired THEN 1
    ELSE IF x.isCore THEN 2 ELSE IF x.isAIModel THEN 3 ELSE 4
SameFlags(x, y) ==
    /\ x.isSystem = y.isSystem
    /\ x.isAppRequired = y.isAppRequired
    /\ x.isCore = y.isCore
    /\ x.isAIModel = y.isAIModel

\* C16: the sorted array is the same for every arrival order of the same
\* entries (unique names): system entries first, then app-required, core,
\* AI-model, the rest, and name order between entries with the same flags.
RenderOrderCanonical ==
    pureStage = "sorted" =>
        /\ sortOutput \in Rearrangements(sortInput)
        /\ \A p \in Rearrangements(sortInput) : SortDeps(p) = sortOutput
        /\ \A i, j \in 1..Len(sortOutput) :
              i < j => /\ GroupRank(sortOutput[i]) <= GroupRank(sortOutput[j])
                       /\ SameFlags(sortOutput[i], sortOutput[j])
                            => localeCompare(sortOutput[i].name, sortOutput[j].name) < 0
RenderOrderCanonical_Witness ==
    /\ pureStage = "sorted"
    /\ Len(sortInput) = 3
    /\ sortOutput # sortInput
    /\ SameFlags(sortInput[1], sortInput[3])
    /\ localeCompare(sortInput[1].name, sortInput[3].name) > 0
    /\ GroupRank(sortInput[2]) < GroupRank(sortInput[1])

\* The 0-based positions at which the lowered query occurs in the lowered key.
Occurrences(key, query) ==
    {i \in 0..(Len(key) - Len(query)) :
        SubSeq(toLowerCase(key), i + 1, i + Len(query)) = toLowerCase(query)}

\* C17: for a key and a non-empty query, compared in lower case, the score
\* is 2000 - len(key), plus 500 when len(key) - len(query) < 3, if the key
\* starts with the query; 1000 - (first position of the query) - len(key) if
\* the query only occurs later; 0 otherwise.
ScoreMatchesFormula ==
    pureStage = "scored" =>
        LET occ == Occurrences(scoreKey, scoreQuery)
        IN  IF 0 \in occ
            THEN scoreResult = 2000 - Len(scoreKey)
                               + (IF Len(scoreKey) - Len(scoreQuery) < 3 THEN 500 ELSE 0)
            ELSE IF occ # {}
            THEN scoreResult = 1000 - (CHOOSE m \in occ : \A o \in occ : m <= o)
                                    - Len(scoreKey)
            ELSE scoreResult = 0
ScoreMatchesFormula_Witness ==
    /\ pureStage = "scored"
    /\ 0 \in Occurrences(scoreKey, scoreQuery)
    /\ Len(scoreKey) - Len(scoreQuery) = 3
    /\ scoreKey # toLowerCase(scoreKey)
    /\ scoreResult = 1996

\* C18: for a non-empty query the result of a search is a rearrangement of
\* the items it was given, in descending score, items of equal score in the
\* order they had, and no item that does not match before one that does.
RankingIsStable ==
    pureStage = "ranked" =>
        /\ \E f \in Bijections(Len(sortInput)) :
              /\ sortOutput = [i \in 1..Len(sortInput) |-> sortInput[f[i]]]
              /\ \A i, j \in 1..Len(sortInput) :
                    (i < j /\ Score(sortOutput[i].name, scoreQuery)
                              = Score(sortOutput[j].name, scoreQuery))
                    => f[i] < f[j]
        /\ \A i, j \in 1..Len(sortOutput) :
              i < j => /\ Score(sortOutput[i].name, scoreQuery)
                          >= Score(sortOutput[j].name, scoreQuery)
                       /\ Score(sortOutput[i].name, scoreQuery) = 0
                            => Score(sortOutput[j].name, scoreQuery) = 0
RankingIsStable_Witness ==
    /\ pureStage = "ranked"
    /\ Len(sortOutput) = 3
    /\ sortOutput # sortInput
    /\ Score(sortOutput[1].name, scoreQuery) = Score(sortOutput[2].name, scoreQuery)
    /\ Score(sortOutput[2].name, scoreQuery) > 0
    /\ Score(sortOutput[3].name, scoreQuery) = 0

\* What a search for query shows when ties go by position in the canonical
\* list.
CanonicalRanking(query) ==
    Names(SortScored([i \in 1..Len(canonical) |-> [name |-> canonical[i]]], query))

\* C19: while the list shows the entries of the canonical list, the order
\* shown after a search for a non-empty query is the ranking of the
\* canonical list for that query, whatever was searched before.
SearchOrderRepeatable ==
    (/\ lastOp.op = "search"
     /\ lastOp.arg # <<>>
     /\ Len(domList) = Len(canonical)
     /\ NameSet(domList) = {canonical[i] : i \in 1..Len(canonical)})
    => Names(domList) = CanonicalRanking(lastOp.arg)

\* C20: an empty query that ends a run of non-empty searches on a rendered
\* list, no list mutation having happened since the run began, shows the
\* order that was shown before the run.
ClearRestoresCanonical ==
    [][(/\ preSearch # NoSearch
        /\ preSearch # <<>>
        /\ \/ lastOp'.op = "clearSearch"
           \/ lastOp'.op = "search" /\ lastOp'.arg = <<>>)
       => Names(domList') = preSearch]_vars

\* An item the user sees: filterDependencies hides with display "none".
Visible(x) == x.display # "none"

\* The visible entries are exactly those passing the active filter.
FilterApplied == \A x \in Items : Visible(x) <=> ShouldShow(x, filterValue)

\* C21: clearing the search on a loaded list whose visible entries are those
\* passing the active filter leaves exactly those entries visible, also when
\* the filter was chosen during the search, and shows the canonical order.
EmptyQueryShowsFiltered ==
    [][(/\ lastOp'.op = "clearSearch"
        /\ listRequests = 0
        /\ NameSet(domList) = {canonical[i] : i \in 1..Len(canonical)}
        /\ FilterApplied)
       => /\ FilterApplied'
          /\ Names(domList') = canonical]_vars

\* C22: when the re-fetch of the single entry that follows an update or a
\* version-switch task returns nothing, the callback goes on to a full
\* reload of the list.
RefetchFailureReloads ==
    [][(refetching' = refetching - 1 /\ lastRefetch' = "null")
       => reloading' = reloading + 1]_vars

\* The callers whose task is a batch operation: batch uninstall, update
\* selected (its callback is the "refreshList" one, dependency.js:274-276)
\* and clean cache.
BatchCallers == {"batchUninstall", "refreshList", "cleanCache"}

\* C23: the completion callback of a batch operation clears the selection
\* and goes on to a full reload of the list.
BatchCompletionClearsAndReloads ==
    [][(onCompleteCalls' = onCompleteCalls + 1 /\ caller \in BatchCallers)
       => /\ selectionCleared'
          /\ reloading' = reloading + 1]_vars

\* C24: when a full reload has rendered the list, or an uninstall has taken
\* an entry out of it, the visible entries are exactly those passing the
\* active filter and, under a non-empty search, the order is the ranking of
\* the list for that query.
StructuralChangeKeepsView ==
    (\/ lastOp.op = "render"
     \/ lastOp.op = "uninstall" /\ "removeDependencyItem" \in Exports(lastOp.from))
    => /\ FilterApplied
       /\ searchValue # <<>>
            => Names(domList) = CanonicalRanking(toLowerCase(searchValue))

\* C25: filterDependencies('all') leaves every entry of the list visible and
\* the selection set as it was.
FilterAllShowsAll ==
    [][(lastOp'.op = "filter" /\ filterValue' = "all")
       => /\ \A i \in 1..Len(domList') : Visible(domList'[i])
          /\ Names(domList') = Names(domList)
          /\ selectedDependencies' = selectedDependencies]_vars
FilterAllShowsAll_Witness ==
    /\ lastOp.op = "filter"
    /\ filterValue = "all"
    /\ Len(domList) = 2
    /\ \A x \in Items : x.display = "flex"
    /\ \E x \in Items : x.isCore /\ x.name \in selectedDependencies
    /\ \E x \in Items : ~x.isCore

\* C26: a tick that handles a progress response sets stagnantCount to 0 when
\* the displayed progress rose and adds one to it when the displayed
\* progress is that of the tick before; the completion for stagnation at
\* 100 therefore comes only after more than StagnantLimit ticks at 100.
StagnantCountTracksUnchanged ==
    /\ [][(ResumeStep /\ lastKind' = "progress")
          => stagnantCount' = IF lastProgressPercent' > lastProgressPercent
                              THEN 0 ELSE stagnantCount + 1]_vars
    /\ [][(ResumeStep /\ endCause = "none" /\ endCause' = "stagnation")
          => lastProgressPercent = 100]_vars

\* C27: a tick that receives a response whose status is 'error' ends the
\* monitor in that tick with an error outcome; a monitor that ended on such
\* a response did not end as a completed task.
ErrorStatusEndsWithError ==
    /\ (endResult.kind = "response" /\ endResult.status = "error")
       => endCause = "errorField"
    /\ (inFlight > 0 /\ ~taskCompleted)
       => \A r \in Responses :
             r.status = "error"
             => LET s == AfterAwait(Cur, r)
                IN  s.taskCompleted /\ s.endCause = "errorField"

\* C28: once taskCompleted is set, whichever call site set it, the interval
\* timer and the safety timeout are cancelled and stay so, and
\* getProgressFunc is not called again.
GuardStopsPollingAndTimers ==
    /\ [](taskCompleted => ~intervalActive /\ ~safetyActive)
    /\ [][taskCompleted => /\ pollsIssued' = pollsIssued
                           /\ ~intervalActive'
                           /\ ~safetyActive'
                           /\ taskCompleted']_vars
GuardStopsPollingAndTimers_Witness ==
    /\ taskCompleted
    /\ endCause = "errorField"
    /\ inFlight > 0
    /\ pollsIssued < MaxTicks
    /\ onCompleteCalls = 1

\* C29: at most one tick is suspended at its await at any time, and the
\* safety timeout does not fire while a tick is suspended.
OneTickAtATime ==
    /\ [](inFlight <= 1)
    /\ [][(inFlight > 0 /\ inFlight' = inFlight) => safetyActive' = safetyActive]_vars

----
(***************************************************************************)
(* Two monitors at once: PairSpec.  Each monitorTaskProgress call has its  *)
(* own closure (counters, guard, timers); showProgressBar,                 *)
(* updateProgressBar and hideProgressBar all address the one               *)
(* #progress-container (ui.js:261-291).                                    *)
(***************************************************************************)
PairTicks == 2      \* getProgressFunc calls each monitor of the pair issues
MonitorIds == {1, 2}

\* What a call of getProgressFunc settles to in PairSpec.
PairResults ==
    { Response(FALSE, 50, "running", "none"),
      Response(FALSE, 100, "completed", "none"),
      Thrown }

\* The closure of a monitor that was just started (ui.js:301-315).
StartedMonitor ==
    [lastProgressPercent |-> 0,
     stagnantCount |-> 0,
     consecutiveErrorCount |-> 0,
     taskCompleted |-> FALSE,
     safetyActive |-> TRUE,
     intervalActive |-> TRUE,
     completions |-> <<>>,
     endCause |-> "none",
     inFlight |-> 0,
     pollsIssued |-> 0,
     onCompleteCalls |-> 0]

\* What the synchronous code of monitor m reads and writes: its closure and
\* the one progress bar.
CurOf(m) ==
    [lastProgressPercent |-> monitors[m].lastProgressPercent,
     stagnantCount |-> monitors[m].stagnantCount,
     consecutiveErrorCount |-> monitors[m].consecutiveErrorCount,
     taskCompleted |-> monitors[m].taskCompleted,
     safetyActive |-> monitors[m].safetyActive,
     intervalActive |-> monitors[m].intervalActive,
     completions |-> monitors[m].completions,
     barPercent |-> sharedBar.percent,
     writes |-> <<>>,
     site |-> "none",
     endCause |-> monitors[m].endCause]

CommitOf(m, s, inFlightAfter, pollsAfter) ==
    /\ monitors' = [monitors EXCEPT ![m] =
          [lastProgressPercent |-> s.lastProgressPercent,
           stagnantCount |-> s.stagnantCount,
           consecutiveErrorCount |-> s.consecutiveErrorCount,
           taskCompleted |-> s.taskCompleted,
           safetyActive |-> s.safetyActive,
           intervalActive |-> s.intervalActive,
           completions |-> s.completions,
           endCause |-> s.endCause,
           inFlight |-> inFlightAfter,
           pollsIssued |-> pollsAfter,
           onCompleteCalls |-> monitors[m].onCompleteCalls]]
    /\ sharedBar' = [sharedBar EXCEPT !.percent = s.barPercent]

\* Both callers have called showProgressBar and monitorTaskProgress.
PairInit ==
    /\ NoMonitor
    /\ ListAtRest
    /\ PureAtRest
    /\ NetAtRest
    /\ SubmitAtRest
    /\ DomAtRest
    /\ monitors = [m \in MonitorIds |-> StartedMonitor]
    /\ sharedBar = [percent |-> 0, hidden |-> FALSE]

\* The interval timer of monitor m fires (ui.js:315-325).
PairTick(m) ==
    /\ monitors[m].intervalActive
    /\ monitors[m].pollsIssued < PairTicks
    /\ IF monitors[m].taskCompleted
       THEN CommitOf(m, [CurOf(m) EXCEPT !.intervalActive = FALSE],
                     monitors[m].inFlight, monitors[m].pollsIssued)
       ELSE CommitOf(m, CurOf(m), monitors[m].inFlight + 1, monitors[m].pollsIssued + 1)
    /\ UNCHANGED <<monitorVars, listVars, pureVars, netVars, submitVars, domVars>>

\* A suspended tick of monitor m resumes with r (ui.js:325-393).
PairResume(m, r) ==
    /\ monitors[m].inFlight > 0
    /\ CommitOf(m, AfterAwait(CurOf(m), r), monitors[m].inFlight - 1, monitors[m].pollsIssued)
    /\ UNCHANGED <<monitorVars, listVars, pureVars, netVars, submitVars, domVars>>

\* The safety timeout of monitor m fires (ui.js:307-312).
PairSafetyTimeoutFires(m) ==
    /\ monitors[m].safetyActive
    /\ LET s0 == [CurOf(m) EXCEPT !.safetyActive = FALSE]
       IN  CommitOf(m, IF ~s0.taskCompleted
                       THEN cleanupAndComplete(At("safetyTimeout", s0), "done", FALSE, NoData)
                       ELSE s0,
                    monitors[m].inFlight, monitors[m].pollsIssued)
    /\ UNCHANGED <<monitorVars, listVars, pureVars, netVars, submitVars, domVars>>

\* The timer armed by cleanupAndComplete of monitor m fires (ui.js:417-451):
\* hideProgressBar, then the notification and onComplete.
PairCompletionTimerFires(m) ==
    /\ monitors[m].completions # <<>>
    /\ monitors' = [monitors EXCEPT ![m].completions = Tail(@),
                                    ![m].onCompleteCalls = @ + 1]
    /\ sharedBar' = [sharedBar EXCEPT !.hidden = TRUE]
    /\ UNCHANGED <<monitorVars, listVars, pureVars, netVars, submitVars, domVars>>

PairNext ==
    \/ \E m \in MonitorIds : PairTick(m)
    \/ \E m \in MonitorIds : \E r \in PairResults : PairResume(m, r)
    \/ \E m \in MonitorIds : PairSafetyTimeoutFires(m)
    \/ \E m \in MonitorIds : PairCompletionTimerFires(m)

PairSpec == PairInit /\ [][PairNext]_vars

\* C30: while a monitor of the pair is running, the progress display is
\* shown and shows that monitor's progress, whatever the other monitor
\* does; a step changes the counters, the guard, the timers and the outcome
\* of one monitor only.
MonitorsAreIndependent ==
    /\ [](\A m \in 1..Len(monitors) :
             ~monitors[m].taskCompleted
             => /\ ~sharedBar.hidden
                /\ sharedBar.percent = monitors[m].lastProgressPercent)
    /\ [][\E m \in MonitorIds :
             \A n \in 1..Len(monitors) : n # m => monitors'[n] = monitors[n]]_vars

\* C31: refreshSingleDependency is called for the package of an install, an
\* update or a version switch only when the monitor of the task has reached
\* a terminal path.
RefetchOnlyAfterTerminal ==
    [][refetching' = refetching + 1 => taskCompleted]_vars

\* C32: a filter chosen while a full reload is in flight holds for the list
\* the reload renders: its visible entries are exactly those passing that
\* filter.
FilterDuringReloadApplies ==
    [][(lastOp.op = "filter" /\ listRequests > 0 /\ lastOp'.op = "render")
       => FilterApplied']_vars

----
(***************************************************************************)
(* The requests that feed the list: NetSpec.  loadDependencies calls fetch *)
(* directly (core-api.js:62-73); getSingleDependency (core-api.js:698-706) *)
(* goes through apiRequest, which arms a 30 s timer that aborts the fetch  *)
(* (core-api.js:13-47).  The backend may answer, fail or stay silent.      *)
(***************************************************************************)
MaxCalls == 3       \* requests made in NetSpec
CallKinds == {"loadDependencies", "getSingleDependency"}

\* apiRequest arms the abort timer (core-api.js:16-17); loadDependencies has none.
ArmsAbort(kind) == kind = "getSingleDependency"

\* A call is made: the request is sent.  refreshDependencies has put the
\* loading message in place of the list before it (core-api.js:739-747).
StartCall(kind) ==
    /\ Len(netCalls) < MaxCalls
    /\ netCalls' = Append(netCalls, [kind |-> kind, phase |-> "fetching",
                                     timer |-> ArmsAbort(kind)])
    /\ shownCall' = IF kind = "loadDependencies" THEN 0 ELSE shownCall
    /\ UNCHANGED <<monitorVars, listVars, pureVars, pairVars, submitVars, domVars>>

\* The backend answers call i with a body: the promise resolves; apiRequest
\* clears its timer (core-api.js:33); refreshDependencies renders the array
\* it awaited (core-api.js:747-764).
CallResolves(i) ==
    /\ i \in 1..Len(netCalls)
    /\ netCalls[i].phase = "fetching"
    /\ netCalls' = [netCalls EXCEPT ![i].phase = "resolved", ![i].timer = FALSE]
    /\ shownCall' = IF netCalls[i].kind = "loadDependencies" THEN i ELSE shownCall
    /\ UNCHANGED <<monitorVars, listVars, pureVars, pairVars, submitVars, domVars>>

\* The request of call i fails (network error, status not ok): the promise
\* rejects; on a network error the timer of apiRequest stays armed.
CallRejects(i, cleared) ==
    /\ i \in 1..Len(netCalls)
    /\ netCalls[i].phase = "fetching"
    /\ netCalls' = [netCalls EXCEPT ![i].phase = "rejected",
                                    ![i].timer = IF cleared THEN FALSE ELSE @]
    /\ UNCHANGED shownCall
    /\ UNCHANGED <<monitorVars, listVars, pureVars, pairVars, submitVars, domVars>>

\* The 30 s timer of call i fires: controller.abort() rejects a fetch that
\* is still pending (core-api.js:17, 42-44) and does nothing to a settled one.
AbortTimerFires(i) ==
    /\ i \in 1..Len(netCalls)
    /\ netCalls[i].timer
    /\ netCalls' = [netCalls EXCEPT
                       ![i].timer = FALSE,
                       ![i].phase = IF @ = "fetching" THEN "aborted" ELSE @]
    /\ UNCHANGED shownCall
    /\ UNCHANGED <<monitorVars, listVars, pureVars, pairVars, submitVars, domVars>>

NetInit == NoMonitor /\ ListAtRest /\ PureAtRest /\ PairAtRest /\ NetAtRest /\ SubmitAtRest /\ DomAtRest

NetNext ==
    \/ \E kind \in CallKinds : StartCall(kind)
    \/ \E i \in 1..MaxCalls : CallResolves(i)
    \/ \E i \in 1..MaxCalls : \E cleared \in BOOLEAN : CallRejects(i, cleared)
    \/ \E i \in 1..MaxCalls : AbortTimerFires(i)

NetSpec == NetInit /\ [][NetNext]_vars

\* A timer that is armed fires; nothing obliges the backend to answer.
FairNetSpec == NetSpec /\ \A i \in 1..MaxCalls : WF_vars(AbortTimerFires(i))

\* C33: every request feeding the list ends, with a result, a failure or an
\* abort, also when the backend never answers.
EveryListCallEnds ==
    \A i \in 1..MaxCalls :
        [](i <= Len(netCalls)
           => <>(i <= Len(netCalls) /\ netCalls[i].phase # "fetching"))

\* The names of the entries the list holds since the latest render or
\* removal.
CanonicalNames == {canonical[i] : i \in 1..Len(canonical)}

\* C34: after a search or a clear-search on a loaded list, the entries
\* displayed are exactly the entries of the list: none that an uninstall
\* removed or a reload dropped, and each once.
SearchShowsCurrentEntries ==
    [][(/\ lastOp'.op \in {"search", "clearSearch"}
        /\ listRequests = 0
        /\ lastOp.op # "refreshFailed"
        /\ NameSet(domList) = CanonicalNames)
       => /\ NameSet(domList') = CanonicalNames
          /\ Len(domList') = Len(canonical)]_vars

\* C35: an item of the list carries the selected marker exactly when its
\* name is in the selection set.
MarkerMatchesSelection ==
    \A x \in Items : x.selected <=> x.name \in selectedDependencies

\* The full reloads made so far, by their position in netCalls.
Reloads == {i \in 1..Len(netCalls) : netCalls[i].kind = "loadDependencies"}

\* C36: when no full reload is in flight any more and the one started last
\* has returned its array, the list shows that array, whatever the order in
\* which the responses arrived.
LastStartedReloadWins ==
    \A last \in Reloads :
        (/\ \A i \in Reloads : i <= last /\ netCalls[i].phase # "fetching"
         /\ netCalls[last].phase = "resolved")
        => shownCall = last

----
(***************************************************************************)
(* Submitting a mutation: SubmitSpec.  A handler shows the progress bar,   *)
(* awaits the submission call and, on its result, either starts a monitor  *)
(* or hides the bar and notifies (dependency.js:37-75, 92-157, 186-311,    *)
(* 468-567).  The list is loaded and selected from as in ListSpec.         *)
(***************************************************************************)
MaxSubmissions == 2     \* submissions made in one behaviour

SubmitKinds == {"uninstall", "update", "switchVersion", "batchUninstall",
                "updateSelected", "install", "cleanCache"}
ItemKinds == {"uninstall", "update", "switchVersion"}
SelectionKinds == {"batchUninstall", "updateSelected"}

\* What the submission call resolves to: { success, taskId?, message? }.
SubmitResults == [success : BOOLEAN, taskId : BOOLEAN]

\* The test that guards the call of monitorTaskProgress in each handler:
\* result.success && result.taskId (dependency.js:41, 145, 301, 474-476),
\* result.success alone for the two batch handlers (dependency.js:201, 273);
\* the uninstall handler never starts a monitor (dependency.js:99-139).
StartsMonitor_OnAnyResult(kind, result) ==
    kind # "uninstall"
StartsMonitor(kind, result) ==
    CASE kind = "uninstall" -> FALSE
      [] kind \in SelectionKinds -> result.success
      [] OTHER -> result.success /\ result.taskId

\* The notification the handler shows when the call has returned.
SubmitNotification(kind, result) ==
    CASE StartsMonitor(kind, result) -> "none"
      [] kind = "uninstall" /\ result.success -> "success"      \* dependency.js:102
      [] kind = "install" /\ result.success -> "success"        \* dependency.js:487
      [] OTHER -> "error"

\* The handler up to its await: the guards, showProgressBar (ui.js:261-267)
\* and the call.  The item buttons exist on unprotected items only
\* (ui.js:78-101); the batch handlers return when nothing is selected
\* (dependency.js:188-192, 222-226).
Submit(kind, packageName) ==
    /\ submission.phase # "awaiting"
    /\ submission.count < MaxSubmissions
    /\ CASE kind \in ItemKinds ->
                \E i \in 1..Len(domList) :
                    /\ domList[i].name = packageName
                    /\ ~IsProtected(domList[i])
                    /\ domList[i].display # "none"
         [] kind \in SelectionKinds -> selectedDependencies # {} /\ packageName = <<>>
         [] kind = "install" -> packageName \in ListNames
         [] OTHER -> packageName = <<>>
    /\ sharedBar' = [percent |-> 0, hidden |-> FALSE]
    /\ submission' = [kind |-> kind, name |-> packageName, phase |-> "awaiting",
                      count |-> submission.count + 1]
    /\ UNCHANGED <<monitors, monitorVars, listVars, pureVars, netVars, domVars>>

\* The call has resolved and the handler runs to its end, or to its next
\* await.  A monitor that is started is a new closure (ui.js:301-315).
\* Without a monitor the bar is hidden.  A successful uninstall removes the
\* item as in UninstallSucceeds; a failed one resets the item's
\* style.display (dependency.js:136); an install that succeeded without a
\* task reloads the list (dependency.js:484-493).
SubmitReturns(result, module) ==
    /\ submission.phase = "awaiting"
    /\ LET kind == submission.kind
           started == StartsMonitor(kind, result)
       IN  /\ monitors' = IF started THEN Append(monitors, StartedMonitor) ELSE monitors
           /\ sharedBar' = IF started THEN sharedBar ELSE [sharedBar EXCEPT !.hidden = TRUE]
           /\ submission' = [kind |-> kind, name |-> submission.name, phase |-> "returned",
                             count |-> submission.count, result |-> result,
                             notified |-> SubmitNotification(kind, result)]
           /\ CASE kind = "uninstall" /\ result.success ->
                       UninstallEffect(submission.name, module)
                [] kind = "uninstall" /\ ~result.success ->
                       /\ domList' = [i \in 1..Len(domList) |->
                                         IF domList[i].name = submission.name
                                         THEN [domList[i] EXCEPT !.display = ""]
                                         ELSE domList[i]]
                       /\ UNCHANGED <<selectedDependencies, filterValue, searchValue,
                                      originalOrder, listRequests, lastOp, canonical,
                                      preSearch>>
                [] kind = "install" /\ result.success /\ ~result.taskId ->
                       /\ listRequests < MaxRequests
                       /\ domList' = <<>>
                       /\ listRequests' = listRequests + 1
                       /\ lastOp' = [op |-> "refresh"]
                       /\ preSearch' = NoSearch
                       /\ UNCHANGED <<selectedDependencies, filterValue, searchValue,
                                      originalOrder, canonical>>
                [] OTHER -> UNCHANGED listVars
    /\ UNCHANGED <<monitorVars, pureVars, netVars, domVars>>

SubmitInit == ListInit

SubmitNext ==
    \/ RefreshStart
    \/ \E dependencies \in Inventories : RefreshRender(dependencies)
    \/ RefreshFails
    \/ \E packageName \in ListNames : Toggle(packageName)
    \/ \E kind \in SubmitKinds, packageName \in ListNames \cup {<<>>} : Submit(kind, packageName)
    \/ \E result \in SubmitResults, module \in UiModules : SubmitReturns(result, module)

SubmitSpec == SubmitInit /\ [][SubmitNext]_vars

\* The entries of the list and their selection markers, whatever is shown of them.
Entries(items) == [i \in 1..Len(items) |-> [items[i] EXCEPT !.display = ""]]

\* C37: when a submission returns success = false, no monitor is started and
\* the entries of the list, the pending reloads and the selection set are as
\* they were before the call returned.
FailedSubmissionChangesNothing ==
    [][(/\ submission.phase = "awaiting"
        /\ submission'.phase = "returned"
        /\ ~submission'.result.success)
       => /\ monitors' = monitors
          /\ Entries(domList') = Entries(domList)
          /\ canonical' = canonical
          /\ listRequests' = listRequests
          /\ selectedDependencies' = selectedDependencies]_vars

\* A failed submission has returned while entries were listed and selected:
\* the bar is hidden again, an error is notified, no monitor exists.
FailedSubmissionChangesNothing_Witness ==
    /\ submission.phase = "returned"
    /\ ~submission.result.success
    /\ submission.notified = "error"
    /\ domList # <<>>
    /\ selectedDependencies # {}
    /\ monitors = <<>>
    /\ sharedBar.hidden

----
(***************************************************************************)
(* The progress elements leave the document while a monitor runs: DomSpec. *)
(* updateProgressBar and hideProgressBar dereference what getElementById   *)
(* returns (ui.js:274-291), so each of them throws once the elements are   *)
(* gone.  One monitor, started by the clean-cache handler with an          *)
(* arbitrary progress function.                                            *)
(***************************************************************************)

\* cleanupAndComplete when updateProgressBar(100, ...) throws (ui.js:403-414):
\* the guard is set and the timers are cleared, the setTimeout of line 417 is
\* not reached.
cleanupAndCompleteBarGone(s) ==
    IF AlreadyCompleted(s)
    THEN s
    ELSE [s EXCEPT !.taskCompleted = TRUE,
                   !.intervalActive = FALSE,
                   !.safetyActive = FALSE,
                   !.endCause = s.site]

\* The interval callback from the await on when the elements are gone.  An
\* exception of updateProgressBar, thrown by the tick itself (ui.js:365) or
\* out of cleanupAndComplete, lands in the outer catch, which calls
\* cleanupAndComplete (ui.js:395-399): that call returns at the guard when
\* the first one had set it, and throws in its turn otherwise.
AfterAwaitBarGone(s, r) ==
    IF r.kind = "throw"
    THEN LET s1 == [s EXCEPT !.consecutiveErrorCount = @ + 1]
         IN  IF ErrorLimitReached(s1.consecutiveErrorCount)
             THEN cleanupAndCompleteBarGone(At("fetchFailed", s1))
             ELSE s1
    ELSE LET s0 == [s EXCEPT !.consecutiveErrorCount = 0]
         IN  IF r.kind = "empty"
             THEN LET s1 == [s0 EXCEPT !.consecutiveErrorCount = @ + 1]
                  IN  IF ErrorLimitReached(s1.consecutiveErrorCount)
                      THEN cleanupAndCompleteBarGone(At("emptyResponse", s1))
                      ELSE s1
             ELSE IF HasErrorField(r)
                  THEN cleanupAndCompleteBarGone(At("errorField", s0))
                  ELSE LET s1 == IF r.progress < s0.lastProgressPercent THEN s0
                                 ELSE [s0 EXCEPT !.lastProgressPercent = r.progress]
                       IN  cleanupAndCompleteBarGone(At("monitorError", s1))

\* Something outside the monitor takes the progress elements out of the document.
BarRemoved ==
    /\ barPresent
    /\ barPresent' = FALSE
    /\ UNCHANGED <<monitorVars, listVars, pureVars, pairVars, netVars, submitVars>>

\* A suspended tick resumes.
DomResume ==
    IF barPresent
    THEN ResumeArbitrary
    ELSE /\ inFlight > 0
         /\ inFlight' = inFlight - 1
         /\ \E r \in PollResults :
               LET s == AfterAwaitBarGone(Cur, r)
               IN  /\ Commit(s)
                   /\ lastKind' = KindOf(r)
                   /\ throwRun' = IF r.kind = "throw" THEN throwRun + 1 ELSE 0
                   /\ failRun' = IF r.kind \in {"throw", "empty"} THEN failRun + 1 ELSE 0
                   /\ endResult' = IF ~taskCompleted /\ s.taskCompleted THEN r ELSE endResult
                   /\ endCount' = IF ~taskCompleted /\ s.taskCompleted
                                  THEN consecutiveErrorCount ELSE endCount
         /\ UNCHANGED <<listVars, pureVars, pairVars, netVars, submitVars, domVars, caller,
                        getProgressFunc, cbVars, uiVars, onCompleteCalls, onCompleteArgs,
                        pollsIssued, requestFailRun, lastRefetch>>

\* The safety timeout fires (ui.js:307-312); its exception is caught by nobody.
DomSafetyTimeoutFires ==
    IF barPresent
    THEN SafetyTimeoutFires
    ELSE /\ safetyActive
         /\ LET s0 == [Cur EXCEPT !.safetyActive = FALSE]
            IN  Commit(IF ~s0.taskCompleted
                       THEN cleanupAndCompleteBarGone(At("safetyTimeout", s0))
                       ELSE s0)
         /\ UNCHANGED <<listVars, pureVars, pairVars, netVars, submitVars, domVars, caller,
                        getProgressFunc, inFlight, cbVars, uiVars, onCompleteCalls,
                        onCompleteArgs, pollsIssued, histVars>>

\* The timer armed by cleanupAndComplete fires (ui.js:417-451): hideProgressBar
\* is its first statement, and nothing after a throwing statement runs.
DomCompletionTimerFires ==
    IF barPresent
    THEN CompletionTimerFires
    ELSE /\ completions # <<>>
         /\ Commit([Cur EXCEPT !.completions = Tail(@)])
         /\ UNCHANGED <<listVars, pureVars, pairVars, netVars, submitVars, domVars, caller,
                        getProgressFunc, inFlight, cbVars, uiVars, onCompleteCalls,
                        onCompleteArgs, pollsIssued, histVars>>

DomInit == Init /\ caller = "cleanCache" /\ getProgressFunc = "arbitrary"

DomNext ==
    \/ Tick
    \/ DomResume
    \/ DomSafetyTimeoutFires
    \/ DomCompletionTimerFires
    \/ BarRemoved

DomSpec == DomInit /\ [][DomNext]_vars

\* Timers that are armed fire, as in FairSpec.
FairDomSpec ==
    /\ DomSpec
    /\ WF_vars(DomSafetyTimeoutFires)
    /\ WF_vars(DomCompletionTimerFires)

\* C38: once the guard is set and both timers are cancelled, onComplete is
\* eventually invoked, also when the progress elements are gone and the bar
\* updates of the monitor throw.
GuardSetLeadsToCallback ==
    (taskCompleted /\ ~safetyActive /\ ~intervalActive) ~> (onCompleteCalls > 0)

====
